---- MODULE Spec2Model ----
(***************************************************************************)
(* bigquery-porter: the push run (planner, p-limit dispatch, task closures), *)
(* the Task primitive, the topological sorter, the deploy of one file and   *)
(* the cleanup of one dataset.                                             *)
(*                                                                         *)
(* The specifications share the variables:                                  *)
(*   Spec         pushBigQueryResourecs on a bounded list of input files   *)
(*   FairSpec     Spec with weak fairness (every started step completes)   *)
(*   PlanSpec     the planner of pushBigQueryResourecs on files whose      *)
(*                destinations need not be their namespace                 *)
(*   TaskSpec     Task objects under arbitrary run() calls and closure     *)
(*                outcomes                                                 *)
(*   SortSpec     topologicalSort applied to a bounded list of relations   *)
(*   DeploySpec   deployBigQueryResouce for one file, as a Task's closure  *)
(*   CleanupSpec  cleanupBigQueryDataset and the closures of its tasks     *)
(***************************************************************************)
EXTENDS Integers, Sequences, FiniteSets, TLC

\* ------------------------------------------------------------------ bounds
MaxFiles == 3
MaxConcurrency == 2
MaxRelations == 3
MaxRunCalls == 2
MaxChildren == 2
MaxDatasets == 2
MaxInvocations == 2

\* ------------------------------------------------------------- identifiers
\* Namespaces that own input files, one referenced resource without a local
\* file, and the sentinel node the planner adds to every relation set.
Namespaces == {"a", "b"}
External == "x"
Sentinel == "#sentinal"
SortNodes == {"a", "b", "c"}
AllIds == Namespaces \cup SortNodes \cup {External, Sentinel}

VARIABLES
  pc,              \* position of the main function
  files,           \* results: one record per input file (part_001:318-327)
  concurrency,     \* pLimit(concurrency)
  DAG,             \* sequence of [ns, tasks]: the Map built at part_001:370
  queue,           \* p-limit queue: tasks handed to limit(), not yet started
  activeCount,     \* p-limit: functions started and not yet settled
  status,          \* Task.status
  runningPromise,  \* Task.runningPromise: undefined / pending / fulfilled / rejected
  error,           \* Task.error
  message,         \* Task.message
  awaited,         \* promises the closure handed to Promise.all
  pos,             \* position of the task closure
  jobCalls,        \* number of invocations of Task.job
  runCalls,        \* number of Task.run() calls
  lastCall,        \* Task.status seen by the latest run() call
  relations,       \* SortSpec: argument of topologicalSort
  sorted,          \* SortSpec: its outcome
  dfile,           \* DeploySpec: the file and option deployBigQueryResouce gets
  dpc,             \* DeploySpec: position inside deployBigQueryResouce
  jobMetadata,     \* DeploySpec: job.metadata as read by job.getMetadata()
  children,        \* DeploySpec: child jobs of a SCRIPT still to be looked at
  calls,           \* DeploySpec: warehouse and metadata calls issued, in order
  warnings,        \* DeploySpec: messages given to console.warn
  raised,          \* DeploySpec: errors the resource fetch and the sync raised
  cinput,          \* CleanupSpec: arguments, local walk and remote listings
  cpc,             \* CleanupSpec: position inside cleanupBigQueryDataset
  kindIx,          \* CleanupSpec: index of the kind the for loop is at
  residual,        \* CleanupSpec: the three maps (their keys, in order)
  prompts,         \* CleanupSpec: the prompts issued and their replies
  ctasks,          \* CleanupSpec: the tasks pushed
  invoked,         \* CleanupSpec: tasks whose closure has been invoked
  deleted,         \* CleanupSpec: ids resource.delete() was called on
  clog,            \* CleanupSpec: lines given to console.error
  datasets,        \* CleanupSpec: directory entries createCleanupTasks has yet to visit
  swept,           \* CleanupSpec: the tasks createCleanupTasks has collected
  settled,         \* CleanupSpec: how each invoked closure and its task ended
  tty,             \* CleanupSpec: prompts, replies and closure runs, in order
  spinIx           \* Task.spin: the `index` its elegantSpinner closure holds

vars == <<pc, files, concurrency, DAG, queue, activeCount, status,
          runningPromise, error, message, awaited, pos, jobCalls, runCalls,
          lastCall, relations, sorted, dfile, dpc, jobMetadata, children, calls,
          warnings, raised, cinput, cpc, kindIx, residual, prompts, ctasks,
          invoked, deleted, clog, datasets, swept, settled, tty, spinIx>>

taskVars == <<status, runningPromise, error, message, jobCalls, runCalls, lastCall>>
pushVars == <<pc, files, concurrency, DAG, queue, activeCount, awaited, pos>>
sortVars == <<relations, sorted>>
deployVars == <<dfile, dpc, jobMetadata, children, calls, warnings, raised>>
cleanupVars == <<cinput, cpc, kindIx, residual, prompts, ctasks, invoked, deleted,
                 clog, datasets, swept, settled, tty>>
reportVars == <<spinIx>>
extVars == <<deployVars, cleanupVars, reportVars>>

TaskIds == 1..MaxFiles

\* ----------------------------------------------------------- JS values
\* A string is a sequence of chunks; undefined is a value of its own.
Undefined == [def |-> FALSE, text |-> <<>>]
Str(s) == [def |-> TRUE, text |-> s]

\* ------------------------------------------------------ sequence helpers
Has(s, x) == \E i \in 1..Len(s) : s[i] = x
AddNode(s, x) == IF Has(s, x) THEN s ELSE Append(s, x)
Reverse(s) == [i \in 1..Len(s) |-> s[Len(s) + 1 - i]]
Range(s) == {s[i] : i \in 1..Len(s)}
IndexOf(s, x) == CHOOSE i \in 1..Len(s) : s[i] = x
Distinct(s) == \A i, j \in 1..Len(s) : i # j => s[i] # s[j]

\* ================================================================ sorter
\* A relation is <<src, dst>>: src depends on dst.

\* relations.reduce(...): E counts the relations leaving each src, G maps each
\* dst to the set of its srcs, N lists the nodes in insertion order.
RECURSIVE Accumulate(_, _)
Accumulate(rels, k) ==
  IF k = 0
  THEN [E |-> [n \in AllIds |-> 0], G |-> [n \in AllIds |-> {}], N |-> <<>>]
  ELSE LET acc == Accumulate(rels, k - 1)
           src == rels[k][1]
           dst == rels[k][2]
       IN [E |-> [acc.E EXCEPT ![src] = @ + 1],
           G |-> [acc.G EXCEPT ![dst] = @ \cup {src}],
           N |-> AddNode(AddNode(acc.N, dst), src)]

\* `if (!tgt) break`: the empty string is the only falsy node name.
Falsy(tgt) == tgt = ""

\* [...N].filter((n) => (E.get(n) ?? 0) === 0)
InitialReadyMutant(N, E) == N
InitialReady(N, E) == SelectSeq(N, LAMBDA n : E[n] = 0)

\* [...N].filter((n) => (E.get(n) ?? 0) <= 0)
ReadyMutant(N, E) == SelectSeq(N, LAMBDA n : E[n] <= 1)
Ready(N, E) == SelectSeq(N, LAMBDA n : E[n] <= 0)

Without(N, S) == SelectSeq(N, LAMBDA n : ~Has(S, n))

\* The while loop: pop the last of S, append it to L, decrement the count of
\* each node of G[tgt], and put the nodes that became ready in front of S
\* (reduce with [n, ...ret] reverses them).
RECURSIVE SortLoop(_, _, _, _, _)
SortLoop(S, L, N, E, G) ==
  IF Len(S) = 0
  THEN [L |-> L, N |-> N]
  ELSE LET tgt == S[Len(S)]
           S1 == SubSeq(S, 1, Len(S) - 1)
       IN IF Falsy(tgt)
          THEN [L |-> L, N |-> N]
          ELSE LET E1 == [n \in AllIds |-> IF n \in G[tgt] THEN E[n] - 1 ELSE E[n]]
                   ready == Ready(N, E1)
               IN SortLoop(Reverse(ready) \o S1, AddNode(L, tgt),
                           Without(N, ready), E1, G)

\* The outcome: either the thrown 'Cycle detected: ...' with the residual
\* nodes it names, or the returned order.
topologicalSort(rels) ==
  LET acc == Accumulate(rels, Len(rels))
      S0 == InitialReady(acc.N, acc.E)
      r == SortLoop(S0, <<>>, Without(acc.N, S0), acc.E, acc.G)
  IN IF Len(r.N) > 0
     THEN [threw |-> TRUE, named |-> r.N, order |-> <<>>]
     ELSE [threw |-> FALSE, named |-> <<>>, order |-> r.L]

NotSorted == [threw |-> FALSE, named |-> <<>>, order |-> <<"?">>]

\* Lists of distinct relations (a set of edges, listed in some order).
SortPairs == SortNodes \X SortNodes
RelationLists ==
  UNION {{s \in [1..n -> SortPairs] : Distinct(s)} : n \in 0..MaxRelations}


\* ================================================================== Task
\* String.prototype.trim on a sequence of chunks: " " is whitespace.
RECURSIVE TrimLeft(_)
TrimLeft(s) == IF Len(s) > 0 /\ s[1] = " " THEN TrimLeft(Tail(s)) ELSE s
RECURSIVE TrimRight(_)
TrimRight(s) ==
  IF Len(s) > 0 /\ s[Len(s)] = " " THEN TrimRight(SubSeq(s, 1, Len(s) - 1)) ELSE s
Trim(s) == TrimRight(TrimLeft(s))

\* What a closure can resolve to, and what it can reject with: an Error whose
\* message is a string, or a value that has no message.
ResolveValues == {Undefined, Str(<<"1B">>)}
RejectValues == {[message |-> Str(<<" ", "boom", " ">>)],
                 [message |-> Str(<<"boom">>)],
                 [message |-> Undefined]}

Terminal == {"success", "failed"}

\* Task.done()
done(t) == status[t] \in Terminal

\* Task.run() up to its await: return unless pending, else set running and
\* call the closure, keeping its promise.
RunMutant(t) ==
  /\ runCalls' = [runCalls EXCEPT ![t] = @ + 1]
  /\ lastCall' = [lastCall EXCEPT ![t] = status[t]]
  /\ status' = [status EXCEPT ![t] = "running"]
  /\ jobCalls' = [jobCalls EXCEPT ![t] = @ + 1]
  /\ runningPromise' = [runningPromise EXCEPT ![t] = "pending"]
RunMutantRunningOnly(t) ==
  /\ runCalls' = [runCalls EXCEPT ![t] = @ + 1]
  /\ lastCall' = [lastCall EXCEPT ![t] = status[t]]
  /\ IF status[t] = "running"
     THEN UNCHANGED <<status, jobCalls, runningPromise>>
     ELSE /\ status' = [status EXCEPT ![t] = "running"]
          /\ jobCalls' = [jobCalls EXCEPT ![t] = @ + 1]
          /\ runningPromise' = [runningPromise EXCEPT ![t] = "pending"]
run(t) ==
  /\ runCalls' = [runCalls EXCEPT ![t] = @ + 1]
  /\ lastCall' = [lastCall EXCEPT ![t] = status[t]]
  /\ IF status[t] # "pending"
     THEN UNCHANGED <<status, jobCalls, runningPromise>>
     ELSE /\ status' = [status EXCEPT ![t] = "running"]
          /\ jobCalls' = [jobCalls EXCEPT ![t] = @ + 1]
          /\ runningPromise' = [runningPromise EXCEPT ![t] = "pending"]

\* The closure's promise is fulfilled with msg and the .then callback runs.
\* The callback is the first reaction registered on the promise (run registers
\* it in the same synchronous stretch that creates the promise), so it runs
\* before any reaction of a task that awaits this promise.
onFulfilled(t, msg) ==
  /\ runningPromise' = [runningPromise EXCEPT ![t] = "fulfilled"]
  /\ status' = [status EXCEPT ![t] = "success"]
  /\ message' = [message EXCEPT ![t] = msg]
  /\ UNCHANGED error

\* The closure's promise is rejected with e and the .catch callback runs:
\* status is assigned first; e.message.trim() throws when e has no message,
\* and then error keeps its value.
onRejected(t, e) ==
  /\ runningPromise' = [runningPromise EXCEPT ![t] = "rejected"]
  /\ status' = [status EXCEPT ![t] = "failed"]
  /\ error' = [error EXCEPT ![t] =
                 IF e.message.def THEN Str(Trim(e.message.text)) ELSE @]
  /\ UNCHANGED message

NewTasks ==
  /\ status = [t \in TaskIds |-> "pending"]
  /\ runningPromise = [t \in TaskIds |-> "undefined"]
  /\ error = [t \in TaskIds |-> Undefined]
  /\ message = [t \in TaskIds |-> Undefined]
  /\ jobCalls = [t \in TaskIds |-> 0]
  /\ runCalls = [t \in TaskIds |-> 0]
  /\ lastCall = [t \in TaskIds |-> "none"]
  /\ spinIx = [t \in TaskIds |-> 0]

NoPush ==
  /\ pc = "none"
  /\ files = <<>>
  /\ concurrency = 1
  /\ DAG = <<>>
  /\ queue = <<>>
  /\ activeCount = 0
  /\ awaited = [t \in TaskIds |-> {}]
  /\ pos = [t \in TaskIds |-> "idle"]

NoSort ==
  /\ relations = <<>>
  /\ sorted = NotSorted

NoJob == [fetched |-> FALSE, errorResult |-> Undefined, id |-> FALSE, statementType |-> "?"]

NoDeploy ==
  /\ dfile = [base |-> "?", depth |-> "?", dryRun |-> FALSE]
  /\ dpc = "none"
  /\ jobMetadata = NoJob
  /\ children = <<>>
  /\ calls = <<>>
  /\ warnings = <<>>
  /\ raised = <<>>

NoTasksYet ==
  /\ kindIx = 1
  /\ residual = [tables |-> <<>>, routines |-> <<>>, models |-> <<>>]
  /\ prompts = <<>>
  /\ ctasks = <<>>
  /\ invoked = {}
  /\ deleted = <<>>
  /\ clog = <<>>
  /\ swept = <<>>
  /\ settled = {}
  /\ tty = <<>>

NoCleanup ==
  /\ cinput = [projectId |-> "?", dirExists |-> FALSE, local |-> {},
               tables |-> <<>>, routines |-> <<>>, models |-> <<>>,
               dryRun |-> "undefined", force |-> "undefined"]
  /\ cpc = "none"
  /\ datasets = <<>>
  /\ NoTasksYet

\* ------------------------------------------------------------- TaskSpec
\* Any caller calls run() on any task at any time.
CallRun(t) ==
  /\ runCalls[t] < MaxRunCalls
  /\ run(t)
  /\ UNCHANGED <<error, message>>
  /\ UNCHANGED <<pushVars, sortVars, extVars>>

JobResolves(t, msg) ==
  /\ runningPromise[t] = "pending"
  /\ onFulfilled(t, msg)
  /\ UNCHANGED <<jobCalls, runCalls, lastCall>>
  /\ UNCHANGED <<pushVars, sortVars, extVars>>

JobRejects(t, e) ==
  /\ runningPromise[t] = "pending"
  /\ onRejected(t, e)
  /\ UNCHANGED <<jobCalls, runCalls, lastCall>>
  /\ UNCHANGED <<pushVars, sortVars, extVars>>

TaskInit == NewTasks /\ NoPush /\ NoSort /\ NoDeploy /\ NoCleanup

TaskNext ==
  \E t \in TaskIds :
    \/ CallRun(t)
    \/ \E msg \in ResolveValues : JobResolves(t, msg)
    \/ \E e \in RejectValues : JobRejects(t, e)

TaskSpec == TaskInit /\ [][TaskNext]_vars

\* ------------------------------------------------------------- SortSpec
SortInit ==
  /\ NewTasks
  /\ NoPush
  /\ relations \in RelationLists
  /\ sorted = NotSorted
  /\ NoDeploy
  /\ NoCleanup

Sort ==
  /\ sorted = NotSorted
  /\ sorted' = topologicalSort(relations)
  /\ UNCHANGED <<relations, taskVars, pushVars, extVars>>

SortNext == Sort

SortSpec == SortInit /\ [][SortNext]_vars


\* ================================================================== push
\* The input: each file's record as built at part_001:318-327.
FileNames == <<"f1", "f2", "f3", "f4", "f5", "f6">>
\* Dependency lists: <<"x", "a">> is a self-reference in a file of a and a
\* reference from b to a; <<"b">> the reverse; "x" has no local file.
DepLists == {<<"x", "a">>, <<"b">>}
DstLists == {<<>>, <<"a">>, <<"b">>}

\* path2bq(n, rootPath, defaultProjectId) at line 324, where the inner n is
\* a dependency id and not a file path: the id is taken for a file name, and
\* with no directory before it no project, dataset or resource is named
path2bqOfId(n) == "."

\* lines 323-324: (await extractBigQueryDependencies(...))
\*   .filter((n) => n !== path2bq(n, rootPath, defaultProjectId))
Dependencies(refs) == SelectSeq(refs, LAMBDA n : n # path2bqOfId(n))
FileKinds ==
  {k \in [namespace : Namespaces, dependencies : DepLists, destinations : DstLists] :
     k.destinations \in {<<>>, <<k.namespace>>}}
Inputs ==
  UNION {{[i \in 1..n |-> [file |-> FileNames[i],
                           namespace |-> f[i].namespace,
                           dependencies |-> Dependencies(f[i].dependencies),
                           destinations |-> f[i].destinations]] :
            f \in [1..n -> FileKinds]} : n \in 0..MaxFiles}

\* _deps.filter((s) => !dsts.has(s)).forEach((src) => ret.add([dst, src]))
RECURSIVE AddSources(_, _, _, _)
AddSources(ret, dst, job, k) ==
  IF k = 0
  THEN ret
  ELSE LET prev == AddSources(ret, dst, job, k - 1)
           src == job.dependencies[k]
       IN IF Has(job.destinations, src) THEN prev ELSE AddNode(prev, <<dst, src>>)

\* _dsts.forEach((dst) => { ret.add([dst, '#sentinal']); ... })
RECURSIVE AddDestinations(_, _, _)
AddDestinations(ret, job, k) ==
  IF k = 0
  THEN ret
  ELSE LET prev == AddDestinations(ret, job, k - 1)
           dst == job.destinations[k]
       IN AddSources(AddNode(prev, <<dst, Sentinel>>), dst, job,
                     Len(job.dependencies))

\* results.reduce(...): the insertion-ordered set of relations
RECURSIVE AddResultsMutant(_, _)
AddResultsMutant(results, k) ==
  IF k = 0
  THEN <<>>
  ELSE LET job == results[k]
       IN AddDestinations(AddResultsMutant(results, k - 1), job,
                          Len(job.destinations))
RECURSIVE AddResults(_, _)
AddResults(results, k) ==
  IF k = 0
  THEN <<>>
  ELSE LET job == results[k]
       IN AddDestinations(
            AddNode(AddResults(results, k - 1), <<job.namespace, Sentinel>>),
            job, Len(job.destinations))

\* ... .filter(([src, dst]) => src !== dst)
Relations(results) ==
  SelectSeq(AddResults(results, Len(results)), LAMBDA r : r[1] # r[2])

\* bigquery2Objs.get(ns) ?? []: the files of a namespace, in input order
bigquery2Objs(results, ns) ==
  SelectSeq([i \in 1..Len(results) |-> i], LAMBDA i : results[i].namespace = ns)

\* the Map built from the sorted namespaces that own at least one file
BuildDAG(order, results) ==
  SelectSeq([k \in 1..Len(order) |->
               [ns |-> order[k], tasks |-> bigquery2Objs(results, order[k])]],
            LAMBDA node : Len(node.tasks) > 0)

Keys == {DAG[k].ns : k \in 1..Len(DAG)}

\* bigquery2Objs.entries(): the namespaces, in insertion order
RECURSIVE Namespaced(_, _)
Namespaced(results, k) ==
  IF k = 0 THEN <<>> ELSE AddNode(Namespaced(results, k - 1), results[k].namespace)

\* item.map((f) => f.destinations).flat(), as a set
AllDestinations(results, key) ==
  UNION {Range(results[i].destinations) : i \in Range(bigquery2Objs(results, key))}

\* lines 427-439: the warnings of the validation loop, for the first k
\* entries of bigquery2Objs
RECURSIVE Validation(_, _, _)
Validation(results, dag, k) ==
  IF k = 0
  THEN <<>>
  ELSE LET key == Namespaced(results, Len(results))[k]
           namespaces == {dag[j].ns : j \in 1..Len(dag)}
       IN Validation(results, dag, k - 1)
          \o (IF key \notin namespaces
              THEN <<<<"Warning: No deployment files for", key>>>>
              ELSE <<>>)
          \o (IF key \notin AllDestinations(results, key) /\ key \in namespaces
              THEN <<<<"Warning: No DDL file exist but target directory found:", key>>>>
              ELSE <<>>)

\* DAG.get(d)?.tasks
NodeTasks(d) ==
  IF d \in Keys
  THEN (CHOOSE node \in Range(DAG) : node.ns = d).tasks
  ELSE <<>>

\* [...DAG.values()].map(({ tasks }) => tasks).flat()
RECURSIVE Flat(_, _)
Flat(dag, k) == IF k = 0 THEN <<>> ELSE Flat(dag, k - 1) \o dag[k].tasks

DagTasks == Range(Flat(DAG, Len(DAG)))

\* job.dependencies.map((d) => DAG.get(d)?.tasks).flat()
DependencyTasks(t) ==
  UNION {Range(NodeTasks(d)) : d \in Range(files[t].dependencies)}

\* DAG.get(ns)?.tasks.slice(0, ix)
EarlierTasksMutant(t) == {}
EarlierTasks(t) ==
  LET own == NodeTasks(files[t].namespace)
  IN {own[k] : k \in 1..(IndexOf(own, t) - 1)}

\* The promises handed to Promise.all when the closure starts: the
\* runningPromise of each of these tasks, which is undefined (and so counts as
\* resolved) for a task whose run() has not been called yet.
AwaitsMutant(t) == DependencyTasks(t) \cup EarlierTasks(t)
Awaits(t) ==
  {u \in DependencyTasks(t) \cup EarlierTasks(t) :
     runningPromise[u] # "undefined"}

\* the names of the failed tasks of the dependency nodes, in map order
RECURSIVE FailedNames(_, _)
FailedNames(ts, k) ==
  IF k = 0
  THEN <<>>
  ELSE FailedNames(ts, k - 1) \o
       (IF status[ts[k]] = "failed" THEN <<files[ts[k]].file>> ELSE <<>>)

RECURSIVE DependencyList(_, _)
DependencyList(deps, k) ==
  IF k = 0 THEN <<>> ELSE DependencyList(deps, k - 1) \o NodeTasks(deps[k])

\* Error('Suspended: Parent job is faild: ' + msg)
Suspended(t) ==
  LET ts == DependencyList(files[t].dependencies, Len(files[t].dependencies))
  IN [message |->
        Str(<<"Suspended: Parent job is faild:", " ">> \o FailedNames(ts, Len(ts)))]

\* what deployBigQueryResouce returns (the bytes it reports), and the Error
\* it throws
DeployMessages == {Str(<<"1B">>)}
DeployError == [message |-> Str(<<"boom">>)]

\* p-limit starts a queued function only while fewer than `concurrency` run
CanStartMutant == TRUE
CanStart == activeCount < concurrency

\* lines 329-439: relations, topologicalSort, DAG and its tasks, and the
\* validation warnings
PlanMutant ==
  /\ pc = "plan"
  /\ LET ts == topologicalSort(Relations(files))
         dag == BuildDAG(ts.order \o ts.named, files)
     IN /\ pc' = "dispatch"
        /\ DAG' = dag
        /\ warnings' = Validation(files, dag, Len(Namespaced(files, Len(files))))
  /\ UNCHANGED <<files, concurrency, queue, activeCount, awaited, pos>>
  /\ UNCHANGED <<dfile, dpc, jobMetadata, children, calls, raised>>
  /\ UNCHANGED <<taskVars, sortVars, cleanupVars, reportVars>>
Plan ==
  /\ pc = "plan"
  /\ LET ts == topologicalSort(Relations(files))
         dag == BuildDAG(ts.order, files)
     IN IF ts.threw
        THEN pc' = "error" /\ UNCHANGED <<DAG, warnings>>
        ELSE /\ pc' = "dispatch"
             /\ DAG' = dag
             /\ warnings' = Validation(files, dag, Len(Namespaced(files, Len(files))))
  /\ UNCHANGED <<files, concurrency, queue, activeCount, awaited, pos>>
  /\ UNCHANGED <<dfile, dpc, jobMetadata, children, calls, raised>>
  /\ UNCHANGED <<taskVars, sortVars, cleanupVars, reportVars>>

\* lines 441-445: every task is handed to limit(), in DAG order
Dispatch ==
  /\ pc = "dispatch"
  /\ pc' = "wait"
  /\ queue' = Flat(DAG, Len(DAG))
  /\ UNCHANGED <<files, concurrency, DAG, activeCount, awaited, pos>>
  /\ UNCHANGED <<taskVars, sortVars, extVars>>

\* p-limit dequeues the first function: task.run() sets running and calls the
\* closure, which runs up to `await Promise.all(...)`
Start(t) ==
  /\ pc = "wait"
  /\ queue # <<>>
  /\ t = Head(queue)
  /\ CanStart
  /\ queue' = Tail(queue)
  /\ activeCount' = activeCount + 1
  /\ run(t)
  /\ awaited' = [awaited EXCEPT ![t] = Awaits(t)]
  /\ pos' = [pos EXCEPT ![t] = "awaiting"]
  /\ UNCHANGED <<pc, files, concurrency, DAG, error, message>>
  /\ UNCHANGED <<sortVars, extVars>>

\* DAG.get(d)?.tasks.map(...) is undefined for a dependency d that is no key
\* of the DAG, and .flat() leaves that undefined in the array handed to
\* Promise.all
MissingDependencies(t) == {d \in Range(files[t].dependencies) : d \notin Keys}

\* Promise.all takes an element that is no promise as already fulfilled
MissingEntryMutant == "pending"
MissingEntry == "fulfilled"

\* Promise.all(...) is fulfilled once every promise it was handed is
PromiseAllFulfilledMutant(t) ==
  /\ \A u \in awaited[t] : runningPromise[u] \in {"fulfilled", "rejected"}
  /\ MissingDependencies(t) # {} => MissingEntry = "fulfilled"
PromiseAllFulfilled(t) ==
  /\ \A u \in awaited[t] : runningPromise[u] = "fulfilled"
  /\ MissingDependencies(t) # {} => MissingEntry = "fulfilled"

\* ... and rejected as soon as one of them is
PromiseAllRejected(t) ==
  \/ \E u \in awaited[t] : runningPromise[u] = "rejected"
  \/ MissingDependencies(t) # {} /\ MissingEntry = "rejected"

\* Promise.all fulfilled: deployBigQueryResouce is invoked
Proceed(t) ==
  /\ pos[t] = "awaiting"
  /\ PromiseAllFulfilled(t)
  /\ pos' = [pos EXCEPT ![t] = "deploying"]
  /\ UNCHANGED <<pc, files, concurrency, DAG, queue, activeCount, awaited>>
  /\ UNCHANGED <<taskVars, sortVars, extVars>>

\* Promise.all rejected: the closure throws 'Suspended', the task fails and
\* p-limit frees its slot
Suspend(t) ==
  /\ pos[t] = "awaiting"
  /\ PromiseAllRejected(t)
  /\ pos' = [pos EXCEPT ![t] = "suspended"]
  /\ onRejected(t, Suspended(t))
  /\ activeCount' = activeCount - 1
  /\ UNCHANGED <<pc, files, concurrency, DAG, queue, awaited>>
  /\ UNCHANGED <<jobCalls, runCalls, lastCall>>
  /\ UNCHANGED <<sortVars, extVars>>

\* the warehouse call returns
DeployReturns(t, msg) ==
  /\ pos[t] = "deploying"
  /\ pos' = [pos EXCEPT ![t] = "returned"]
  /\ onFulfilled(t, msg)
  /\ activeCount' = activeCount - 1
  /\ UNCHANGED <<pc, files, concurrency, DAG, queue, awaited>>
  /\ UNCHANGED <<jobCalls, runCalls, lastCall>>
  /\ UNCHANGED <<sortVars, extVars>>

\* the warehouse call throws
DeployThrows(t) ==
  /\ pos[t] = "deploying"
  /\ pos' = [pos EXCEPT ![t] = "threw"]
  /\ onRejected(t, DeployError)
  /\ activeCount' = activeCount - 1
  /\ UNCHANGED <<pc, files, concurrency, DAG, queue, awaited>>
  /\ UNCHANGED <<jobCalls, runCalls, lastCall>>
  /\ UNCHANGED <<sortVars, extVars>>

\* lines 449-455: the wait loop ends once every task is done
Finish ==
  /\ pc = "wait"
  /\ queue = <<>>
  /\ \A t \in DagTasks : done(t)
  /\ pc' = "finished"
  /\ UNCHANGED <<files, concurrency, DAG, queue, activeCount, awaited, pos>>
  /\ UNCHANGED <<taskVars, sortVars, extVars>>

Init ==
  /\ NewTasks
  /\ NoSort
  /\ NoDeploy
  /\ NoCleanup
  /\ pc = "plan"
  /\ files \in Inputs
  /\ concurrency \in 1..MaxConcurrency
  /\ DAG = <<>>
  /\ queue = <<>>
  /\ activeCount = 0
  /\ awaited = [t \in TaskIds |-> {}]
  /\ pos = [t \in TaskIds |-> "idle"]

\* a step of the limiter or of one task's closure
Execute ==
  \E t \in TaskIds :
    \/ Start(t)
    \/ Proceed(t)
    \/ Suspend(t)
    \/ \E msg \in DeployMessages : DeployReturns(t, msg)
    \/ DeployThrows(t)

Next ==
  \/ Plan
  \/ Dispatch
  \/ Finish
  \/ Execute

Spec == Init /\ [][Next]_vars

\* The event loop runs every continuation that is ready, p-limit starts a
\* queued function whenever a slot is free, every warehouse call returns or
\* throws, and the wait loop polls every 100 ms.
FairSpec == Spec /\ WF_vars(Execute) /\ WF_vars(Finish)

\* deployBigQueryResouce has been invoked for t
DeployInvoked(t) == pos[t] \in {"deploying", "returned", "threw"}

\* the planner emitted the relation <<B, A>>: namespace B depends on A
Edge(B, A) == Has(Relations(files), <<B, A>>)

\* the task failed with the closure's 'Suspended' error
SuspendedError(t) ==
  /\ status[t] = "failed"
  /\ error[t].def
  /\ Len(error[t].text) > 0
  /\ error[t].text[1] = "Suspended: Parent job is faild:"

\* C1: for every file job J and every id d of J.dependencies that is a key of
\* the DAG, deployBigQueryResouce is invoked for J only after every task of
\* node d has reached success or failed. (J's own namespace is left out of the
\* ids d: a file that references its own namespace cannot wait for itself.)
C1_DeployAfterDependencies ==
  \A t \in DagTasks :
    \A d \in (Range(files[t].dependencies) \cap Keys) \ {files[t].namespace} :
      \A u \in Range(NodeTasks(d)) :
        DeployInvoked(t) => done(u)

C3_IntraNodeOrder ==
  \A n \in 1..Len(DAG) :
    \A k \in 1..Len(DAG[n].tasks) :
      \A i \in 1..(k - 1) :
        DeployInvoked(DAG[n].tasks[k]) => done(DAG[n].tasks[i])

\* the third task of a node deploys, with room in the limiter for two tasks
C3_Witness ==
  /\ concurrency >= 2
  /\ \E n \in 1..Len(DAG) :
       /\ Len(DAG[n].tasks) >= 3
       /\ pos[DAG[n].tasks[3]] = "deploying"

\* C6: once the tasks are dispatched, every one of them reaches success or
\* failed and the wait loop ends (every warehouse call returns or throws).
C6_Terminates ==
  (pc = "wait") ~> (pc = "finished" /\ \A t \in DagTasks : done(t))

\* a run with concurrency 1 ended with a failed deploy, a suspended task and
\* a successful task whose file references its own namespace
C6_Witness ==
  /\ pc = "finished"
  /\ concurrency = 1
  /\ \E t1, t2, t3 \in DagTasks :
       /\ pos[t1] = "threw"
       /\ pos[t2] = "suspended"
       /\ pos[t3] = "returned"
       /\ Has(files[t3].dependencies, files[t3].namespace)

\* C7: at every moment the number of tasks with status running (the closure
\* started and not settled, waiting for predecessors or deploying) is at most
\* `concurrency`.
C7_BoundedRunning ==
  Cardinality({t \in TaskIds : status[t] = "running"}) <= concurrency

\* the limiter is full, one of its tasks only waits for a predecessor, and a
\* task is still queued
C7_Witness ==
  /\ Cardinality({t \in TaskIds : status[t] = "running"}) = concurrency
  /\ queue # <<>>
  /\ \E t \in TaskIds : pos[t] = "awaiting" /\ awaited[t] # {}

\* C8: for tasks a of node A and b of node B where B's file depends on A, a
\* is terminal no later than the moment b's status leaves pending. (Stated
\* for the pairs the planner emitted the relation <<B, A>> for, so that the
\* sort places A before B.)
C8_TerminalBeforeStart ==
  \A b \in DagTasks :
    \A A \in Keys \ {files[b].namespace} :
      Edge(files[b].namespace, A) =>
        \A a \in Range(NodeTasks(A)) :
          status[b] # "pending" => done(a)

\* ------------------------------------------------- cycles, by reachability
RelNodes(rels) == {r[1] : r \in Range(rels)} \cup {r[2] : r \in Range(rels)}
Successors(rels, S) == {r[2] : r \in {e \in Range(rels) : e[1] \in S}}
RECURSIVE ReachFrom(_, _, _)
ReachFrom(rels, S, k) ==
  IF k = 0 THEN S ELSE ReachFrom(rels, S \cup Successors(rels, S), k - 1)
\* the nodes reached from n by one or more relations
Reach(rels, n) == ReachFrom(rels, Successors(rels, {n}), Cardinality(RelNodes(rels)))
OnCycle(rels, n) == n \in Reach(rels, n)
HasCycle(rels) == \E n \in RelNodes(rels) : OnCycle(rels, n)

\* C9: for every acyclic set of relations <<src, dst>>, topologicalSort
\* returns a list that holds every node of the relations exactly once and in
\* which dst comes before src for every relation.
C9_SortOrdersAcyclic ==
  (sorted # NotSorted /\ ~HasCycle(relations)) =>
    /\ ~sorted.threw
    /\ Range(sorted.order) = RelNodes(relations)
    /\ Distinct(sorted.order)
    /\ \A r \in Range(relations) :
         IndexOf(sorted.order, r[2]) < IndexOf(sorted.order, r[1])

\* a chain of three nodes has been sorted
C9_Witness ==
  /\ sorted # NotSorted
  /\ ~sorted.threw
  /\ Len(sorted.order) = 3
  /\ \E n \in SortNodes :
       /\ \E r \in Range(relations) : r[1] = n
       /\ \E r \in Range(relations) : r[2] = n

\* C10: topologicalSort throws 'Cycle detected' exactly when the relations
\* hold a directed cycle, and the message names every node on a cycle.
C10_CycleDetected ==
  sorted # NotSorted =>
    /\ sorted.threw <=> HasCycle(relations)
    /\ sorted.threw =>
         \A n \in RelNodes(relations) :
           OnCycle(relations, n) => Has(sorted.named, n)

\* a cycle through two distinct nodes was detected, while a third node that
\* is on no cycle was sorted
C10_Witness ==
  /\ sorted.threw
  /\ \E n, m \in SortNodes :
       /\ n # m
       /\ Has(relations, <<n, m>>)
       /\ Has(relations, <<m, n>>)
  /\ \E n \in RelNodes(relations) : ~OnCycle(relations, n)


\* C4: for every Task, under every interleaving of run() calls and closure
\* outcomes, the status moves only pending -> running and running -> success
\* or failed; it never goes back and never changes once it is terminal.
C4_StatusMonotone ==
  [][\A t \in TaskIds :
       status'[t] # status[t] =>
         \/ status[t] = "pending" /\ status'[t] = "running"
         \/ status[t] = "running" /\ status'[t] \in Terminal]_vars

\* run() was called on a task that had already ended
C4_Witness ==
  \E t \in TaskIds : lastCall[t] \in Terminal /\ status[t] = lastCall[t]

\* C5: over any number of run() calls on a Task, also calls made while an
\* earlier run() still awaits the closure, the closure is invoked at most
\* once, and a run() call made when status is not pending changes nothing.
C5_RunIdempotent ==
  [][\A t \in TaskIds :
       /\ jobCalls'[t] <= 1
       /\ (runCalls'[t] # runCalls[t] /\ status[t] # "pending") =>
            UNCHANGED <<status, runningPromise, error, message, jobCalls>>]_vars

\* a second run() call arrived while the first still awaits the closure
C5_Witness ==
  \E t \in TaskIds :
    /\ runCalls[t] >= 2
    /\ lastCall[t] = "running"
    /\ status[t] = "running"
    /\ jobCalls[t] = 1

\* C11: when the relations built from the input files hold a cycle,
\* pushBigQueryResourecs fails in the planner: run() is called on no task, no
\* closure starts and deployBigQueryResouce (the only place that submits a
\* query job) is never invoked.
C11_PlannerErrorFatal ==
  HasCycle(Relations(files)) =>
    /\ pc \in {"plan", "error"}
    /\ queue = <<>>
    /\ \A t \in TaskIds :
         runCalls[t] = 0 /\ jobCalls[t] = 0 /\ pos[t] = "idle" /\ status[t] = "pending"

\* the planner threw on two namespaces whose files reference each other
C11_Witness ==
  /\ pc = "error"
  /\ Edge("a", "b")
  /\ Edge("b", "a")
  /\ Len(files) >= 2

\* C12: topologicalSort is deterministic in the edge set: any two relation
\* lists that hold the same set of edges, listed in any order, produce the
\* same output order.
C12_SortDeterministic ==
  (sorted # NotSorted /\ ~sorted.threw) =>
    \A other \in RelationLists :
      Range(other) = Range(relations) =>
        topologicalSort(other).order = sorted.order

\* ------------------------------------------------------------- PlanSpec
\* The planner alone, on files whose destinations need not be their own
\* namespace: a script in the directory of a that creates x or b.
PlanDstLists == {<<>>, <<"a">>, <<"b">>, <<"x">>}
PlanKinds ==
  [namespace : Namespaces, dependencies : DepLists, destinations : PlanDstLists]
PlanInputs(n) ==
  {[i \in 1..n |-> [file |-> FileNames[i],
                    namespace |-> f[i].namespace,
                    dependencies |-> Dependencies(f[i].dependencies),
                    destinations |-> f[i].destinations]] :
     f \in [1..n -> PlanKinds]}

PlanInit ==
  /\ NewTasks
  /\ NoSort
  /\ NoDeploy
  /\ NoCleanup
  /\ pc = "plan"
  /\ \E n \in 0..MaxFiles : files \in PlanInputs(n)
  /\ concurrency = 1
  /\ DAG = <<>>
  /\ queue = <<>>
  /\ activeCount = 0
  /\ awaited = [t \in TaskIds |-> {}]
  /\ pos = [t \in TaskIds |-> "idle"]

PlanNext == Plan

PlanSpec == PlanInit /\ [][PlanNext]_vars

\* C13: in every DAG the planner returns, every destination id of every file
\* job is a key of the DAG map.
C13_DestinationsAreKeys ==
  pc = "dispatch" =>
    \A i \in 1..Len(files) :
      \A d \in Range(files[i].destinations) : d \in Keys

\* ================================================================ deploy
\* deployBigQueryResouce for one file, as the closure of one Task.

DeployTask == CHOOSE t \in TaskIds : \A u \in TaskIds : t <= u

restVars == <<pushVars, sortVars, cleanupVars, reportVars>>

\* p.endsWith('sql')
EndsWithSql(base) == base \in {"view.sql", "ddl.sql"}

\* const [_, schemaId, name] = path2bq(p, rootPath, defaultProjectId).split('.')
\* for a file in the project directory, in a dataset directory, or in the
\* directory of a resource
HasSchemaId(depth) == depth \in {"dataset", "resource"}
HasName(depth) == depth = "resource"

DeployFiles ==
  [base : {"view.sql", "ddl.sql", "notes.md"},
   depth : {"project", "dataset", "resource"},
   dryRun : BOOLEAN]

\* thrown values: an ApiError of the client with its code, or a plain Error
ApiError(code, msg) == [message |-> Str(<<msg>>), api |-> TRUE, code |-> code]
PlainError(text) == [message |-> Str(text), api |-> FALSE, code |-> 0]
RpcErrors ==
  {ApiError(404, "Not found"), ApiError(403, "Access Denied"),
   PlainError(<<"socket hang up">>)}

\* the cases of the switch on statementType, and two types it does not list
SchemaTypes == {"CREATE_SCHEMA", "DROP_SCHEMA", "ALTER_SCHEMA"}
RowAccessTypes == {"CREATE_ROW_ACCESS_POLICY", "DROP_ROW_ACCESS_POLICY"}
ModelTypes == {"CREATE_MODEL", "EXPORT_MODEL"}
RoutineTypes ==
  {"CREATE_FUNCTION", "CREATE_TABLE_FUNCTION", "DROP_FUNCTION",
   "CREATE_PROCEDURE", "DROP_PROCEDURE"}
TableTypes ==
  {"CREATE_TABLE", "CREATE_VIEW", "CREATE_TABLE_AS_SELECT", "DROP_TABLE",
   "DROP_VIEW", "ALTER_TABLE", "ALTER_VIEW", "INSERT", "UPDATE", "DELETE",
   "MERGE", "CREATE_MATERIALIZED_VIEW", "DROP_MATERIALIZED_VIEW"}
StatementTypes ==
  {"SCRIPT", "SELECT", "TRUNCATE_TABLE"} \cup SchemaTypes \cup RowAccessTypes
    \cup ModelTypes \cup RoutineTypes \cup TableTypes

\* job.metadata after job.getMetadata(): status.errorResult, job.id and
\* statistics.query.statementType
JobMetadata ==
  [fetched : {TRUE},
   errorResult : {Undefined, Str(<<"Syntax error">>)},
   id : BOOLEAN,
   statementType : StatementTypes]

\* the child jobs of a SCRIPT: what each one's statistics name as DDL target
ChildTargets == {"none", "routine", "table"}
ChildLists == UNION {[1..n -> ChildTargets] : n \in 0..MaxChildren}

\* the function goes on to position l after issuing the calls cs and logging
\* the warnings ws
Step(l, cs, ws) ==
  /\ dpc' = l
  /\ calls' = calls \o cs
  /\ warnings' = warnings \o ws
  /\ UNCHANGED taskVars

\* the function returns msg: the closure's promise is fulfilled
Return(msg) ==
  /\ dpc' = "returned"
  /\ onFulfilled(DeployTask, msg)
  /\ UNCHANGED <<calls, warnings, jobCalls, runCalls, lastCall>>

\* the function throws e: the closure's promise is rejected
Throw(e) ==
  /\ dpc' = "threw"
  /\ onRejected(DeployTask, e)
  /\ UNCHANGED <<calls, warnings, jobCalls, runCalls, lastCall>>

\* lines 227-229: catch (e) { console.warn(e.message) }, then line 231
CaughtMutant(e) == Throw(e)
Caught(e) == Step("stats", <<>>, <<e.message>>)

\* Task.run() calls the closure, which calls deployBigQueryResouce
DeployRun ==
  /\ dpc = "idle"
  /\ run(DeployTask)
  /\ dpc' = "entered"
  /\ UNCHANGED <<error, message>>
  /\ UNCHANGED <<dfile, jobMetadata, children, calls, warnings, raised>>
  /\ UNCHANGED restVars

\* lines 50-63 and the switch on the basename up to its first call
DeployEnter ==
  /\ dpc = "entered"
  /\ IF ~EndsWithSql(dfile.base)
     THEN Return(Undefined)
     ELSE IF ~HasSchemaId(dfile.depth)
     THEN Throw(PlainError(<<"Invalid SchemaId">>))
     ELSE IF dfile.base = "view.sql"
     THEN IF ~HasName(dfile.depth)
          THEN Return(Undefined)
          ELSE IF dfile.dryRun
          THEN Step("viewDry", <<"createQueryJob">>, <<>>)
          ELSE Step("viewExists", <<"table.exists">>, <<>>)
     ELSE Step("submitted", <<"createQueryJob">>, <<>>)
  /\ UNCHANGED <<dfile, jobMetadata, children, raised>>
  /\ UNCHANGED restVars

\* lines 55-59: fs.promises.readFile rejects
ReadFileFails ==
  /\ dpc = "entered"
  /\ EndsWithSql(dfile.base)
  /\ Throw(PlainError(<<"dir", ": ", "ENOENT">>))
  /\ UNCHANGED <<dfile, jobMetadata, children, raised>>
  /\ UNCHANGED restVars

\* lines 175-190: the dry-run job of a view answers, with or without
\* statistics.totalBytesProcessed
ViewDryReturns(bytes) ==
  /\ dpc = "viewDry"
  /\ IF bytes
     THEN Return(Str(<<"1B">>))
     ELSE Step("viewExists", <<"table.exists">>, <<>>)
  /\ UNCHANGED <<dfile, jobMetadata, children, raised>>
  /\ UNCHANGED restVars

\* lines 193-199: api.exists() answers; the table is fetched or created
ViewExistsReturns(isExist) ==
  /\ dpc = "viewExists"
  /\ Step("viewGet", <<IF isExist THEN "table.get" ELSE "createTable">>, <<>>)
  /\ UNCHANGED <<dfile, jobMetadata, children, raised>>
  /\ UNCHANGED restVars

\* line 200
ViewGetReturns ==
  /\ dpc = "viewGet"
  /\ Step("viewSync", <<"syncMetadata">>, <<>>)
  /\ UNCHANGED <<dfile, jobMetadata, children, raised>>
  /\ UNCHANGED restVars

\* lines 201, 248
ViewSyncReturns ==
  /\ dpc = "viewSync"
  /\ Return(Undefined)
  /\ UNCHANGED <<dfile, jobMetadata, children, raised>>
  /\ UNCHANGED restVars

\* a call outside the try block throws
RpcThrows(e) ==
  /\ dpc \in {"viewDry", "viewExists", "viewGet", "viewSync", "submitted"}
  /\ Throw(e)
  /\ UNCHANGED <<dfile, jobMetadata, children, raised>>
  /\ UNCHANGED restVars

\* lines 204-223: createQueryJob answers; ijob.configuration.dryRun is the
\* dryRun of the request
JobCreated(bytes) ==
  /\ dpc = "submitted"
  /\ IF dfile.dryRun /\ bytes
     THEN Return(Str(<<"1B">>))
     ELSE Step("jobPromise", <<"job.promise">>, <<>>)
  /\ UNCHANGED <<dfile, jobMetadata, children, raised>>
  /\ UNCHANGED restVars

\* lines 68-70: job.promise() settles either way (.catch((e) => e))
JobSettles ==
  /\ dpc = "jobPromise"
  /\ Step("getMetadata", <<"job.getMetadata">>, <<>>)
  /\ UNCHANGED <<dfile, jobMetadata, children, raised>>
  /\ UNCHANGED restVars

\* lines 71-164: job.getMetadata() answers
GetMetadataReturns(md) ==
  /\ dpc = "getMetadata"
  /\ jobMetadata' = md
  /\ IF md.errorResult.def
     THEN Caught(PlainError(md.errorResult.text))
     ELSE IF ~md.id
     THEN Caught(PlainError(<<"Invalid SchemaId">>))
     ELSE IF md.statementType = "SCRIPT"
     THEN Step("getJobs", <<"getJobs">>, <<>>)
     ELSE IF md.statementType \in SchemaTypes
     THEN Step("get", <<"dataset.get">>, <<>>)
     ELSE IF md.statementType \in RowAccessTypes
     THEN Caught(PlainError(<<"Not Supported: ", "ROW_ACCES_POLICY">>))
     ELSE IF md.statementType \in ModelTypes
     THEN Caught(PlainError(<<"Not Supported: ", "MODEL">>))
     ELSE IF md.statementType \in RoutineTypes
     THEN IF ~HasName(dfile.depth)
          THEN Caught(PlainError(<<"Invalid routineId">>))
          ELSE Step("get", <<"routine.get">>, <<>>)
     ELSE IF md.statementType \in TableTypes
     THEN IF ~HasName(dfile.depth)
          THEN Caught(PlainError(<<"Invalid tableId">>))
          ELSE Step("get", <<"table.get">>, <<>>)
     ELSE Caught(PlainError(<<"Not Supported: ", "statistics">>))
  /\ UNCHANGED <<dfile, children, raised>>
  /\ UNCHANGED restVars

\* a call inside the try block throws, outside the loop over the child jobs
FetchThrows(e) ==
  /\ dpc \in {"getMetadata", "getJobs", "get", "sync"}
  /\ raised' = Append(raised, [at |-> dpc, e |-> e])
  /\ Caught(e)
  /\ UNCHANGED <<dfile, jobMetadata, children>>
  /\ UNCHANGED restVars

\* lines 224-226: the resource is fetched; its id is the file's directory or
\* it is not
GetReturns(match) ==
  /\ dpc = "get"
  /\ IF match
     THEN Step("sync", <<"syncMetadata">>, <<>>)
     ELSE Step("stats", <<>>, <<>>)
  /\ UNCHANGED <<dfile, jobMetadata, children, raised>>
  /\ UNCHANGED restVars

SyncReturns ==
  /\ dpc = "sync"
  /\ Step("stats", <<>>, <<>>)
  /\ UNCHANGED <<dfile, jobMetadata, children, raised>>
  /\ UNCHANGED restVars

\* lines 85-110: the loop goes to the next child that names a DDL target and
\* issues its GET, or ends and returns undefined
RECURSIVE SkipChildren(_)
SkipChildren(kids) ==
  IF kids # <<>> /\ Head(kids) = "none" THEN SkipChildren(Tail(kids)) ELSE kids
ChildLoop(kids) ==
  LET rest == SkipChildren(kids)
  IN /\ children' = rest
     /\ IF rest = <<>>
        THEN Step("stats", <<>>, <<>>)
        ELSE Step("childGet",
                  <<IF Head(rest) = "routine" THEN "routine.get" ELSE "table.get">>,
                  <<>>)

\* lines 82-84
GetJobsReturns(kids) ==
  /\ dpc = "getJobs"
  /\ ChildLoop(kids)
  /\ UNCHANGED <<dfile, jobMetadata, raised>>
  /\ UNCHANGED restVars

\* lines 89-98: the first successful fetch wins
ChildGetReturns(match) ==
  /\ dpc = "childGet"
  /\ children' = <<>>
  /\ IF match
     THEN Step("sync", <<"syncMetadata">>, <<>>)
     ELSE Step("stats", <<>>, <<>>)
  /\ UNCHANGED <<dfile, jobMetadata, raised>>
  /\ UNCHANGED restVars

\* lines 100-108: a 404 ApiError continues the loop, another ApiError is
\* thrown again as an Error, and any other value leaves the catch block
ChildGetThrows(e) ==
  /\ dpc = "childGet"
  /\ raised' = Append(raised, [at |-> dpc, e |-> e])
  /\ IF e.api /\ e.code # 404
     THEN children' = <<>> /\ Caught(PlainError(e.message.text))
     ELSE ChildLoop(Tail(children))
  /\ UNCHANGED <<dfile, jobMetadata>>
  /\ UNCHANGED restVars

\* lines 231-248: the message from job.metadata.statistics, when it has
\* totalBytesProcessed, with the elapsed time when it has both times
Stats(kind) ==
  /\ dpc = "stats"
  /\ IF kind = "none"
     THEN Return(Undefined)
     ELSE IF kind = "bytes"
     THEN Return(Str(<<"1B">>))
     ELSE Return(Str(<<"1B", ", ", "1s">>))
  /\ UNCHANGED <<dfile, jobMetadata, children, raised>>
  /\ UNCHANGED restVars

DeployInit ==
  /\ NewTasks
  /\ NoPush
  /\ NoSort
  /\ NoCleanup
  /\ dfile \in DeployFiles
  /\ dpc = "idle"
  /\ jobMetadata = NoJob
  /\ children = <<>>
  /\ calls = <<>>
  /\ warnings = <<>>
  /\ raised = <<>>

DeployNext ==
  \/ DeployRun
  \/ DeployEnter
  \/ ReadFileFails
  \/ \E bytes \in BOOLEAN : ViewDryReturns(bytes)
  \/ \E isExist \in BOOLEAN : ViewExistsReturns(isExist)
  \/ ViewGetReturns
  \/ ViewSyncReturns
  \/ \E e \in RpcErrors : RpcThrows(e)
  \/ \E bytes \in BOOLEAN : JobCreated(bytes)
  \/ JobSettles
  \/ \E md \in JobMetadata : GetMetadataReturns(md)
  \/ \E e \in RpcErrors : FetchThrows(e)
  \/ \E match \in BOOLEAN : GetReturns(match)
  \/ SyncReturns
  \/ \E kids \in ChildLists : GetJobsReturns(kids)
  \/ \E match \in BOOLEAN : ChildGetReturns(match)
  \/ \E e \in RpcErrors : ChildGetThrows(e)
  \/ \E kind \in {"none", "bytes", "times"} : Stats(kind)

DeploySpec == DeployInit /\ [][DeployNext]_vars

\* deployBigQueryResouce has ended, by a return or a throw
DeployEnded == dpc \in {"returned", "threw"}

\* C14: when a non-dry-run query job submitted for a file other than view.sql
\* ends with status.errorResult set, the deploy raises errorResult.message and
\* the file's task ends failed with that message.
C14_ErrorResultFailsTask ==
  (/\ DeployEnded
   /\ dfile.base # "view.sql"
   /\ ~dfile.dryRun
   /\ jobMetadata.fetched
   /\ jobMetadata.errorResult.def) =>
    /\ dpc = "threw"
    /\ status[DeployTask] = "failed"
    /\ error[DeployTask] = Str(Trim(jobMetadata.errorResult.text))

\* the error text begins with 'Not Supported'
NotSupportedError(t) ==
  /\ error[t].def
  /\ Len(error[t].text) > 0
  /\ error[t].text[1] = "Not Supported: "

\* the statement types the switch resolves to a resource
HandledTypes == {"SCRIPT"} \cup SchemaTypes \cup RoutineTypes \cup TableTypes

\* C15: when the query job (run for real, completed without errorResult)
\* resolves to a statementType that is not handled, the deploy fails and the
\* file's task ends failed with a 'Not Supported' error.
C15_UnsupportedFailsTask ==
  (/\ DeployEnded
   /\ ~dfile.dryRun
   /\ jobMetadata.fetched
   /\ ~jobMetadata.errorResult.def
   /\ jobMetadata.id
   /\ jobMetadata.statementType \notin HandledTypes) =>
    /\ status[DeployTask] = "failed"
    /\ NotSupportedError(DeployTask)

\* the errors raised by the resource fetch and the metadata sync of a job
\* whose metadata was read
FetchErrors == {i \in 1..Len(raised) : raised[i].at # "getMetadata"}
Logged(e) == Has(warnings, e.message)
SkippedInScript(r) == r.at = "childGet" /\ (~r.e.api \/ r.e.code = 404)

C17_DryRunHasNoEffect ==
  dfile.dryRun =>
    \A i \in 1..Len(calls) :
      IF dfile.base = "view.sql"
      THEN calls[i] \notin {"createTable", "syncMetadata"}
      ELSE calls[i] \notin {"job.promise", "getJobs", "dataset.get",
                            "routine.get", "table.get", "syncMetadata"}

\* =============================================================== cleanup
\* cleanupBigQueryDataset for one dataset directory, and the closures of the
\* tasks it returns.
ProjectDirs == {"@default", "myproject"}
DefaultProjectId == "ambient"
ResourceNames == <<"r1", "r2">>

\* a fully-qualified id `${projectId}.${datasetId}.${name}` of the dataset
Id(project, name) == [project |-> project, name |-> name]

\* const nsProject = projectId != '@default' ? projectId : defaultProjectId
nsProject(projectId) ==
  IF projectId # "@default" THEN projectId ELSE DefaultProjectId

\* the files walk() can find under the dataset directory: the directory of a
\* table, of a routine (with its two files) and of a model, all named r1
LocalFiles ==
  <<[kind |-> "table", name |-> "r1", file |-> "ddl.sql"],
    [kind |-> "routine", name |-> "r1", file |-> "ddl.sql"],
    [kind |-> "routine", name |-> "r1", file |-> "metadata.json"],
    [kind |-> "model", name |-> "r1", file |-> "metadata.json"]>>
Walks ==
  {SelectSeq(LocalFiles, LAMBDA f : f \in chosen) : chosen \in SUBSET Range(LocalFiles)}

\* what getTables, getRoutines and getModels list, by name
Listings(n) ==
  {SelectSeq(SubSeq(ResourceNames, 1, n), LAMBDA r : r \in chosen) :
     chosen \in SUBSET Range(SubSeq(ResourceNames, 1, n))}

CleanupInputs ==
  {c \in [projectId : ProjectDirs, dirExists : BOOLEAN, local : Walks,
          tables : Listings(Len(ResourceNames)),
          routines : Listings(Len(ResourceNames)),
          models : Listings(Len(ResourceNames) - 1),
          dryRun : {"true", "false", "undefined"},
          force : {"true", "false", "undefined"}] :
     ~c.dirExists => c.local = <<>>}

\* p.includes('@default'): the path is rootDir/projectId/datasetId/...
IncludesDefault(projectId) == projectId = "@default"

\* f.match(/@routine/), f.match(/@model/): the '@routines' or '@models'
\* segment of the path
MatchesRoutine(f) == f.kind = "routine"
MatchesModel(f) == f.kind = "model"

\* path2bq(f, rootDir, defaultProjectId): '@default' becomes the ambient
\* project, the kind segment is dropped and the last directory names the
\* resource
path2bq(projectId, f, defaultProjectId) ==
  Id(IF projectId = "@default" THEN defaultProjectId ELSE projectId, f.name)

\* new Map(rr.map((r) => [`${r.projectId}.${r.datasetId}.${r.id}`, r])): the
\* keys, in insertion order
RemoteMap(project, names) == [i \in 1..Len(names) |-> Id(project, names[i])]

Remove(keys, k) == SelectSeq(keys, LAMBDA x : x # k)

\* lines 82-98: .forEach over the walked paths
RECURSIVE LeaveResources(_, _, _, _)
LeaveResources(maps, projectId, paths, k) ==
  IF k = 0
  THEN maps
  ELSE LET prev == LeaveResources(maps, projectId, paths, k - 1)
           f == paths[k]
           bqId == path2bq(projectId, f, DefaultProjectId)
       IN IF MatchesRoutine(f) /\ Has(prev.routines, bqId)
          THEN [prev EXCEPT !.routines = Remove(@, bqId)]
          ELSE IF MatchesModel(f) /\ Has(prev.models, bqId)
          THEN [prev EXCEPT !.models = Remove(@, bqId)]
          ELSE IF Has(prev.tables, bqId)
          THEN [prev EXCEPT !.tables = Remove(@, bqId)]
          ELSE prev

\* lines 48-98: the three maps after the local paths are taken out
Residual(c) ==
  LET paths == IF IncludesDefault(c.projectId) THEN c.local ELSE <<>>
      maps == [tables |-> RemoteMap(nsProject(c.projectId), c.tables),
               routines |-> RemoteMap(nsProject(c.projectId), c.routines),
               models |-> RemoteMap(nsProject(c.projectId), c.models)]
  IN LeaveResources(maps, c.projectId, paths, Len(paths))

\* const isDryRun = options?.dryRun ?? true
IsDryRunMutant(c) == IF c.dryRun = "undefined" THEN FALSE ELSE c.dryRun = "true"
IsDryRun(c) == IF c.dryRun = "undefined" THEN TRUE ELSE c.dryRun = "true"

\* const isForce = options?.withoutConrimation ?? false
IsForce(c) == IF c.force = "undefined" THEN FALSE ELSE c.force = "true"

\* for (const kind of [tables, routines, models])
KindOrder == <<"tables", "routines", "models">>

\* what the operator can type
Replies == {<<"y">>, <<" ", "y", "e", "s", " ">>, <<"n">>, <<"Y">>, <<>>}

\* ans.replace(/^\s+|\s+$/g, '').startsWith('y')
ConfirmedMutant(ans) == Len(ans) > 0 /\ ans[1] = "y"
Confirmed(ans) == Len(Trim(ans)) > 0 /\ Trim(ans)[1] = "y"

\* lines 124-146: one task per entry of the map
NewDeleteTasks(kind) ==
  [i \in 1..Len(residual[kind]) |-> [kind |-> kind, bqId |-> residual[kind][i]]]

otherVars == <<pushVars, sortVars, taskVars, deployVars, reportVars>>

\* lines 32-98: the early returns, the listings and the subtraction
CleanupStart(ok) ==
  /\ cpc = "start"
  /\ IF ~cinput.dirExists \/ ~ok
     THEN cpc' = "skipped" /\ UNCHANGED residual
     ELSE cpc' = "loop" /\ residual' = Residual(cinput)
  /\ UNCHANGED <<cinput, kindIx, prompts, ctasks, invoked, deleted, clog>>
  /\ UNCHANGED <<datasets, swept, settled, tty>>
  /\ UNCHANGED otherVars

\* lines 104-147 for one kind, up to the prompt
KindStep ==
  /\ cpc = "loop"
  /\ IF kindIx > Len(KindOrder)
     THEN cpc' = "returned" /\ UNCHANGED <<kindIx, ctasks, tty>>
     ELSE LET kind == KindOrder[kindIx]
          IN IF Len(residual[kind]) = 0
             THEN kindIx' = kindIx + 1 /\ UNCHANGED <<cpc, ctasks, tty>>
             ELSE IF ~IsForce(cinput) /\ ~IsDryRun(cinput)
             THEN /\ cpc' = "prompt"
                  /\ tty' = Append(tty, "ask")
                  /\ UNCHANGED <<kindIx, ctasks>>
             ELSE /\ ctasks' = ctasks \o NewDeleteTasks(kind)
                  /\ kindIx' = kindIx + 1
                  /\ UNCHANGED <<cpc, tty>>
  /\ UNCHANGED <<cinput, residual, prompts, invoked, deleted, clog>>
  /\ UNCHANGED <<datasets, swept, settled>>
  /\ UNCHANGED otherVars

\* lines 111-146: the operator answers the prompt
PromptAnswered(ans) ==
  /\ cpc = "prompt"
  /\ prompts' = Append(prompts, [kind |-> KindOrder[kindIx], ans |-> ans])
  /\ tty' = Append(tty, "answer")
  /\ ctasks' = IF Confirmed(ans)
               THEN ctasks \o NewDeleteTasks(KindOrder[kindIx])
               ELSE ctasks
  /\ kindIx' = kindIx + 1
  /\ cpc' = "loop"
  /\ UNCHANGED <<cinput, residual, invoked, deleted, clog>>
  /\ UNCHANGED <<datasets, swept, settled>>
  /\ UNCHANGED otherVars

\* line 161: `await cleanupBigQueryDataset(...)`: the loop of
\* createCleanupTasks goes on once the call for the dataset has settled
CallSettledMutant == cpc \in {"returned", "skipped", "prompt"}
CallSettled == cpc \in {"returned", "skipped"}

\* lines 156-177: tasks.push(...(deleteTasks ?? [])), then the next directory
\* entry, or `return tasks`
Collect ==
  /\ CallSettled
  /\ swept' = swept \o ctasks
  /\ IF datasets = <<>>
     THEN /\ cpc' = "done"
          /\ UNCHANGED <<cinput, datasets, kindIx, residual, prompts, ctasks>>
     ELSE /\ cinput' = Head(datasets)
          /\ datasets' = Tail(datasets)
          /\ cpc' = "start"
          /\ kindIx' = 1
          /\ residual' = [tables |-> <<>>, routines |-> <<>>, models |-> <<>>]
          /\ prompts' = <<>>
          /\ ctasks' = <<>>
  /\ UNCHANGED <<invoked, deleted, clog, settled, tty>>
  /\ UNCHANGED otherVars

\* lines 134-143: what the closure's promise settles to; the catch block is
\* empty, so a throw of resource.delete() ends in `return { isDryRun }` too
ClosureSettlesMutant(threw) == IF threw THEN "rejected" ELSE "resolved"
ClosureSettles(threw) == "resolved"

\* the status a task records once its closure has settled
JobTaskStatus(outcome) == IF outcome = "resolved" THEN "success" ELSE "failed"

\* lines 134-143: the closure of a collected task is invoked (a task invokes
\* its closure once, after createCleanupTasks has returned the list);
\* resource.delete() may throw
InvokeDelete(i, throws) ==
  /\ cpc = "done"
  /\ i \in (1..Len(swept)) \ invoked
  /\ Cardinality(invoked) < MaxInvocations
  /\ invoked' = invoked \cup {i}
  /\ tty' = Append(tty, "run")
  /\ clog' = Append(clog, [dryRun |-> IsDryRun(cinput), bqId |-> swept[i].bqId])
  /\ deleted' = IF ~IsDryRun(cinput) THEN Append(deleted, swept[i].bqId) ELSE deleted
  /\ LET threw == ~IsDryRun(cinput) /\ throws
     IN settled' = settled \cup
          {[task |-> i, threw |-> threw,
            status |-> JobTaskStatus(ClosureSettles(threw))]}
  /\ UNCHANGED <<cinput, cpc, kindIx, residual, prompts, ctasks, datasets, swept>>
  /\ UNCHANGED otherVars

\* the later directory entries of a run: datasets with at most one remote
\* table and one remote routine and no local file
LaterDatasets(c) ==
  {[c EXCEPT !.dirExists = TRUE, !.local = <<>>, !.models = <<>>,
             !.tables = t, !.routines = r] :
     t \in Listings(1), r \in Listings(1)}

RECURSIVE DatasetLists(_, _)
DatasetLists(c, n) ==
  IF n = 0
  THEN {<<>>}
  ELSE DatasetLists(c, n - 1) \cup
       {Append(l, d) : l \in {m \in DatasetLists(c, n - 1) : Len(m) = n - 1},
                       d \in LaterDatasets(c)}

CleanupInit ==
  /\ NewTasks
  /\ NoPush
  /\ NoSort
  /\ NoDeploy
  /\ cinput \in CleanupInputs
  /\ datasets \in DatasetLists(cinput, MaxDatasets - 1)
  /\ datasets # <<>> => cinput \in LaterDatasets(cinput)
  /\ cpc = "start"
  /\ NoTasksYet

CleanupNext ==
  \/ \E ok \in BOOLEAN : CleanupStart(ok)
  \/ KindStep
  \/ \E ans \in Replies : PromptAnswered(ans)
  \/ Collect
  \/ \E i \in 1..Len(swept) : \E throws \in BOOLEAN : InvokeDelete(i, throws)

CleanupSpec == CleanupInit /\ [][CleanupNext]_vars

\* the kind of local path that stands for a resource of a remote map
PathKind(kind) ==
  IF kind = "routines" THEN "routine" ELSE IF kind = "models" THEN "model" ELSE "table"

\* a local path under the dataset directory maps to the id of this resource
HasLocalPath(kind, bqId) ==
  \E f \in Range(cinput.local) :
    /\ f.kind = PathKind(kind)
    /\ path2bq(cinput.projectId, f, DefaultProjectId) = bqId

\* the remote resources of a kind, by id
RemoteIds(kind) ==
  Range(RemoteMap(nsProject(cinput.projectId), cinput[kind]))

\* deletion of this kind went ahead: forced, dry-run, or the operator's
\* trimmed reply began with 'y'
KindConfirmed(kind) ==
  \/ cinput.force = "true"
  \/ cinput.dryRun # "false"
  \/ \E i \in 1..Len(prompts) :
       /\ prompts[i].kind = kind
       /\ Len(Trim(prompts[i].ans)) > 0
       /\ Trim(prompts[i].ans)[1] = "y"

TasksFor(kind, bqId) ==
  {i \in 1..Len(ctasks) : ctasks[i].kind = kind /\ ctasks[i].bqId = bqId}

\* C18: a deletion task is emitted for a remote table, routine or model only
\* if no local path under the dataset directory maps to its fully-qualified
\* id, and exactly one deletion task is emitted per confirmed orphaned
\* resource, for the project directory `@default` and for an explicit
\* project id alike.
C18_DeleteOnlyOrphans ==
  cpc = "returned" =>
    /\ \A i \in 1..Len(ctasks) : ~HasLocalPath(ctasks[i].kind, ctasks[i].bqId)
    /\ \A kind \in Range(KindOrder) :
         \A bqId \in RemoteIds(kind) :
           (KindConfirmed(kind) /\ ~HasLocalPath(kind, bqId)) =>
             Cardinality(TasksFor(kind, bqId)) = 1

\* C19: resource.delete() is called only when dryRun is explicitly false; in
\* dry-run mode (dryRun true, or the option left unset) a reconcile task only
\* logs.
C19_DryRunNeverDeletes ==
  /\ deleted # <<>> => cinput.dryRun = "false"
  /\ cinput.dryRun # "false" =>
       /\ deleted = <<>>
       /\ \A i \in 1..Len(clog) : clog[i].dryRun

\* with the option left unset, two returned tasks ran and only logged
C19_Witness ==
  /\ cinput.dryRun = "undefined"
  /\ Cardinality(invoked) >= 2
  /\ Len(clog) >= 2
  /\ deleted = <<>>

\* the kinds that still hold a resource after the local paths are taken out
NonEmptyKinds == SelectSeq(KindOrder, LAMBDA kind : Len(residual[kind]) > 0)

\* C20: when neither force nor dry-run is in effect (dryRun explicitly false)
\* the operator is prompted once for each non-empty kind, in order; the tasks
\* of a kind are emitted exactly if the trimmed reply for that kind begins
\* with 'y', whatever the replies for the other kinds; with force, or in
\* dry-run, no prompt is issued.
C20_PromptGatesEachKind ==
  LET prompting == cinput.force # "true" /\ cinput.dryRun = "false"
  IN /\ ~prompting => (cpc # "prompt" /\ prompts = <<>>)
     /\ (prompting /\ cpc = "returned") =>
          /\ [i \in 1..Len(prompts) |-> prompts[i].kind] = NonEmptyKinds
          /\ \A kind \in Range(KindOrder) :
               \A bqId \in Range(residual[kind]) :
                 Cardinality(TasksFor(kind, bqId)) =
                   IF KindConfirmed(kind) THEN 1 ELSE 0

\* the operator refused the tables, typed ' yes ' for the routines and 'Y'
\* for the models: only the routines' tasks were emitted
C20_Witness ==
  /\ cpc = "returned"
  /\ Len(prompts) = 3
  /\ prompts[1].ans = <<"n">>
  /\ prompts[2].ans = <<" ", "y", "e", "s", " ">>
  /\ prompts[3].ans = <<"Y">>
  /\ Len(ctasks) > 0
  /\ \A i \in 1..Len(ctasks) : ctasks[i].kind = "routines"

\* the number of events e among the first k of the terminal
Count(e, k) == Cardinality({i \in 1..k : tty[i] = e})

\* C21: the reconciliation prompt is serialized and happens outside task
\* execution: at every moment at most one prompt has been issued and not yet
\* answered, and no closure of a deletion task runs before createCleanupTasks
\* has returned, so every prompt of every dataset is issued and answered
\* before the first closure runs.
C21_PromptsSerialized ==
  /\ \A k \in 0..Len(tty) : Count("ask", k) - Count("answer", k) \in {0, 1}
  /\ \A i, j \in 1..Len(tty) : (i < j /\ tty[i] = "run") => tty[j] = "run"
  /\ (invoked # {} \/ deleted # <<>>) =>
       (cpc = "done" /\ Count("ask", Len(tty)) = Count("answer", Len(tty)))

\* both datasets of a run were prompted for their tables and their routines,
\* and a deletion went ahead after the fourth reply
C21_Witness ==
  /\ Len(tty) = 9
  /\ Count("ask", 8) = 4
  /\ Count("answer", 8) = 4
  /\ tty[9] = "run"
  /\ deleted # <<>>

\* C22: a reconcile deletion task never fails: whether or not
\* resource.delete() throws, the closure of every invoked task resolves and
\* the task ends success, one outcome per invoked task, while the tasks not
\* yet invoked stay as they were.
C22_DeleteNeverFails ==
  /\ \A s \in settled : s.status = "success"
  /\ {s.task : s \in settled} = invoked
  /\ Cardinality(settled) = Cardinality(invoked)

\* resource.delete() threw in one task and went through in another; both
\* tasks ended success
C22_Witness ==
  /\ \E s \in settled : s.threw /\ s.status = "success"
  /\ \E s \in settled : ~s.threw /\ s.status = "success"
  /\ Len(deleted) = 2

\* C23: whenever a Task's closure settles, the task ends in a terminal state
\* that records the outcome: success with message equal to the resolved
\* value if the closure resolved; failed with error set, and equal to the
\* trimmed message of the rejection value, if the closure rejected, for any
\* rejection value; done() is then true, and error is set only in failed
\* tasks.
C23_OutcomeRecorded ==
  [][\A t \in TaskIds :
       /\ \A msg \in ResolveValues :
            JobResolves(t, msg) =>
              (status'[t] = "success" /\ message'[t] = msg /\ done(t)')
       /\ \A e \in RejectValues :
            JobRejects(t, e) =>
              /\ status'[t] = "failed"
              /\ done(t)'
              /\ error'[t].def
              /\ e.message.def => error'[t] = Str(Trim(e.message.text))
       /\ error'[t].def => status'[t] = "failed"]_vars

\* ============================================================== Reporter
\* const spinnerFrames = process.platform === 'win32' ? [...] : [...]: the
\* frames of the win32 build
spinnerFrames == <<"-", "\\", "|", "/">>

\* elegantSpinner: index = ++index % spinnerFrames.length
elegantSpinnerMutant(index) == (index + 2) % Len(spinnerFrames)
elegantSpinner(index) == (index + 1) % Len(spinnerFrames)

\* Task.name, split on '/': a file of a dataset, a file of a routine, and a
\* file deeper than max_level
Leaves == <<"f1", "f2", "f3", "f4", "f5", "f6">>
TaskName(t) ==
  IF t % 3 = 1 THEN <<"p", "d", Leaves[t]>>
  ELSE IF t % 3 = 2 THEN <<"p", "d", "@routines", "r", Leaves[t]>>
  ELSE <<"p", "d", "a", "b", "c", "e", Leaves[t]>>

\* report_task: the number of calls of task.spin() it makes
report_task(t) == IF status[t] = "running" THEN 1 ELSE 0

\* report_tree, lines 137-145: the key of a task at a level, and the keys of
\* the Map in insertion order
GroupKey(t, level) ==
  LET parts == TaskName(t)
  IN IF Len(parts) = level + 1 THEN "#tail"
     ELSE IF Len(parts) > level THEN parts[level + 1] ELSE "#none"

RECURSIVE GroupKeys(_, _, _)
GroupKeys(tasks, level, k) ==
  IF k = 0 THEN <<>>
  ELSE AddNode(GroupKeys(tasks, level, k - 1), GroupKey(tasks[k], level))

\* report_tree, lines 147-167: the tasks report_task is called on, in order
RECURSIVE report_tree(_, _, _)
RECURSIVE GroupVisits(_, _, _, _, _)
GroupVisits(tasks, keys, k, level, max_level) ==
  IF k = 0 THEN <<>>
  ELSE LET group == SelectSeq(tasks, LAMBDA t : GroupKey(t, level) = keys[k])
           body == IF keys[k] = "#tail" THEN group
                   ELSE IF level < max_level
                        THEN report_tree(group, level + 1, max_level)
                        ELSE group
       IN GroupVisits(tasks, keys, k - 1, level, max_level) \o body
report_tree(tasks, level, max_level) ==
  LET keys == GroupKeys(tasks, level, Len(tasks))
  IN GroupVisits(tasks, keys, Len(keys), level, max_level)

\* this.tasks of the Reporter: every task, in order
ReporterTasks == [t \in TaskIds |-> t]

\* report_tree(this.tasks), with the defaults level = 0 and max_level = 4
TreeVisits == report_tree(ReporterTasks, 0, 4)

\* the spinner index of t after report_task has been called on the listed
\* tasks
RECURSIVE SpinAfter(_, _, _)
SpinAfter(t, visits, k) ==
  IF k = 0 THEN spinIx[t]
  ELSE LET prev == SpinAfter(t, visits, k - 1)
       IN IF visits[k] = t /\ report_task(t) = 1 THEN elegantSpinner(prev) ELSE prev

\* show_until_finished, one turn of the loop: some task is not done, and
\* report_tree(this.tasks) is yielded
Render ==
  /\ \E t \in TaskIds : ~done(t)
  /\ spinIx' = [t \in TaskIds |-> SpinAfter(t, TreeVisits, Len(TreeVisits))]
  /\ UNCHANGED <<taskVars, pushVars, sortVars, deployVars, cleanupVars>>

\* the tasks on show are each handed to run() once (part_001:443); their
\* closures settle at any time, and the reporter's loop turns in between
ReportNext ==
  \/ \E t \in TaskIds :
       \/ runCalls[t] = 0 /\ CallRun(t)
       \/ \E msg \in ResolveValues : JobResolves(t, msg)
       \/ \E e \in RejectValues : JobRejects(t, e)
  \/ Render

ReportSpec == TaskInit /\ [][ReportNext]_vars

\* C24, as stated: rendering never changes a task; a turn of
\* show_until_finished leaves every task's status, message, error,
\* runningPromise and the spinner frame position the task holds unchanged.
C24_RenderChangesNothing ==
  [][Render => UNCHANGED <<taskVars, spinIx>>]_vars

\* C24, amended: a turn of show_until_finished leaves every task's status,
\* message, error and runningPromise unchanged; the one thing it changes is
\* the spinner frame position, which advances by one frame, cyclically, for
\* each task that is running and stays put for every other task.
C24_RenderOnlySpins ==
  [][Render =>
       /\ UNCHANGED taskVars
       /\ \A t \in TaskIds :
            spinIx'[t] = IF status[t] = "running"
                         THEN (spinIx[t] + 1) % Len(spinnerFrames)
                         ELSE spinIx[t]]_vars

\* a task was rendered three times while running and ended; another one was
\* never running when rendered
C24_Witness ==
  \E t, u \in TaskIds :
    /\ status[t] = "success" /\ spinIx[t] = 3
    /\ status[u] = "pending" /\ spinIx[u] = 0

\* C25: for every file job built by pushBigQueryResourecs, the job's
\* dependencies never contain the job's own namespace.
C25_NoSelfDependency ==
  \A i \in 1..Len(files) :
    files[i].namespace \notin Range(files[i].dependencies)

\* C26: in cleanupBigQueryDataset each local path is subtracted only from
\* the map of its own kind: a remote table, routine or model is missing from
\* the residual map of its kind only if a local path of that same kind maps
\* to its id, so a local routine or model directory never keeps a remote
\* table of the same id from being listed as orphaned.
C26_OwnKindOnly ==
  cpc \in {"loop", "prompt", "returned"} =>
    \A kind \in Range(KindOrder) :
      \A bqId \in RemoteIds(kind) :
        ~Has(residual[kind], bqId) => HasLocalPath(kind, bqId)

\* C27: when a task is suspended because an awaited task failed, its error
\* message names every awaited task that has ended failed, be it a task of a
\* dependency node or an earlier task of the same node.
C27_SuspendedNamesFailed ==
  [][\A t \in TaskIds :
       Suspend(t) =>
         \A u \in awaited[t] :
           status[u] = "failed" => Has(error'[t].text, files[u].file)]_vars

\* the 'No deployment files' warnings of the validation loop
NoDeploymentFiles ==
  SelectSeq(warnings, LAMBDA w : w[1] = "Warning: No deployment files for")

\* C28: for every input file list whose relations are acyclic, every
\* namespace that owns an input file is a key of the DAG, each input file
\* gets exactly one task (there are as many tasks as files), and the 'No
\* deployment files' warning is never emitted.
C28_EveryFileGetsATask ==
  pc \notin {"plan", "error"} =>
    /\ \A i \in 1..Len(files) : files[i].namespace \in Keys
    /\ Len(Flat(DAG, Len(DAG))) = Len(files)
    /\ DagTasks = 1..Len(files)
    /\ NoDeploymentFiles = <<>>

\* three files of two namespaces were planned: a script and a DDL file in
\* the directory of a, and a file of b that contains no DDL, which gets the
\* 'No DDL file' warning and a task of its own all the same
C28_Witness ==
  /\ pc = "dispatch"
  /\ Len(files) = 3
  /\ Keys = {"a", "b"}
  /\ \E i, j \in 1..Len(files) :
       /\ i # j
       /\ files[i].namespace = "a" /\ files[i].destinations = <<"x">>
       /\ files[j].namespace = "a" /\ files[j].destinations = <<"a">>
  /\ \E i \in 1..Len(files) :
       files[i].namespace = "b" /\ files[i].destinations = <<>>
  /\ Has(warnings, <<"Warning: No DDL file exist but target directory found:", "b">>)

\* C29: a dependency id that is no key of the DAG (a referenced resource with
\* no local file) counts as already satisfied: a task that has such a
\* dependency can go on to deployBigQueryResouce as soon as the tasks it
\* awaits have all ended success, it cannot be suspended while none of them
\* has failed, and if it was suspended then one of them had failed.
C29_MissingDependencySatisfied ==
  \A t \in DagTasks :
    MissingDependencies(t) # {} =>
      /\ (pos[t] = "awaiting" /\ \A u \in awaited[t] : status[u] = "success")
           => ENABLED Proceed(t)
      /\ (pos[t] = "awaiting" /\ \A u \in awaited[t] : status[u] # "failed")
           => ~ENABLED Suspend(t)
      /\ pos[t] = "suspended" => \E u \in awaited[t] : status[u] = "failed"

\* a file of b that references x, which has no local file, and a: it awaited
\* the task of a, and went on to deploy once that task had ended success
C29_Witness ==
  \E t \in DagTasks :
    /\ files[t].namespace = "b"
    /\ files[t].dependencies = <<"x", "a">>
    /\ "x" \notin Keys
    /\ awaited[t] # {}
    /\ \A u \in awaited[t] : files[u].namespace = "a" /\ status[u] = "success"
    /\ pos[t] = "deploying"

====
